---- MODULE Spec2Model ----
(***************************************************************************)
(* The unit types of morb (src/morb/units.py): ten distribution families   *)
(* that turn an activation map (vmap) into samples, mean-field values and  *)
(* free-energy terms, and the proxy units four of them construct.          *)
(*                                                                         *)
(* One unit is constructed (with its proxy, if its class has one) and its  *)
(* methods are then called, in any order, on vmaps the caller supplies.    *)
(* A call is recorded by its outcome (a return or the exception raised),   *)
(* by the collaborator call whose result it returns (the sampler and the   *)
(* parameters handed to it) and by the caller's vmap after the call.       *)
(***************************************************************************)
EXTENDS Integers, Sequences, FiniteSets, TLC

VARIABLES pc, units, vmap, arg, last

vars == <<pc, units, vmap, arg, last>>

(***************************************************************************)
(* Bounds                                                                  *)
(***************************************************************************)
\* activation entries are the integers -MaxAct .. MaxAct
MaxAct == 1
\* a tensor in a one-key vmap has at most MaxElems entries
MaxElems == 2
\* the two tensors of a two-key vmap have at most MaxProxyElems entries each
MaxProxyElems == 1
\* a tensor BinaryUnits' free-energy term is asked on has at most MaxSumElems entries
MaxSumElems == 4

(***************************************************************************)
(* Numbers.  A tensor entry is a float, modelled exactly as a signed       *)
(* fraction <<s, n, d>> = s * n / d with s in {1, -1}: d = 0 with n = 1 is *)
(* an infinity, n = d = 0 is NaN, and n = 0 with d = 1 is a signed zero,   *)
(* so that division by zero behaves as it does on floats.                  *)
(***************************************************************************)
RECURSIVE GCD(_, _)
GCD(a, b) == IF b = 0 THEN a ELSE GCD(b, a % b)

NaN == <<1, 0, 0>>

Norm(s, n, d) ==
    IF n = 0 /\ d = 0 THEN NaN
    ELSE IF d = 0 THEN <<s, 1, 0>>
    ELSE IF n = 0 THEN <<s, 0, 1>>
    ELSE <<s, n \div GCD(n, d), d \div GCD(n, d)>>

FromInt(i) == IF i < 0 THEN <<-1, -i, 1>> ELSE <<1, i, 1>>

IsNaN(x) == x[2] = 0 /\ x[3] = 0
IsInf(x) == x[2] # 0 /\ x[3] = 0
IsFinite(x) == x[3] # 0
IsInteger(x) == x[3] = 1
IntOf(x) == x[1] * x[2]

RNeg(x) == IF IsNaN(x) THEN NaN ELSE <<-x[1], x[2], x[3]>>

RMul(x, y) == Norm(x[1] * y[1], x[2] * y[2], x[3] * y[3])

RRecip(x) == Norm(x[1], x[3], x[2])

RDiv(x, y) == RMul(x, RRecip(y))

RAdd(x, y) ==
    IF IsNaN(x) \/ IsNaN(y) THEN NaN
    ELSE IF IsInf(x) /\ IsInf(y) THEN (IF x[1] = y[1] THEN x ELSE NaN)
    ELSE IF IsInf(x) THEN x
    ELSE IF IsInf(y) THEN y
    ELSE LET num == x[1] * x[2] * y[3] + y[1] * y[2] * x[3]
             den == x[3] * y[3]
         IN  IF num = 0 THEN <<(IF x[1] = -1 /\ y[1] = -1 THEN -1 ELSE 1), 0, 1>>
             ELSE IF num < 0 THEN Norm(-1, -num, den)
             ELSE Norm(1, num, den)

RSub(x, y) == RAdd(x, RNeg(y))

(***************************************************************************)
(* Theano's elementwise functions.  sigmoid and softplus are tabulated to  *)
(* three decimals at the integers (beyond +-8 both are at their asymptote  *)
(* to that precision); a fractional argument, which no activation of the   *)
(* model is, takes the entry of the integer below it.                      *)
(***************************************************************************)
SigmoidTable == <<500, 731, 881, 953, 982, 993, 998, 999>>

SoftplusTable == <<693, 1313, 2127, 3049, 4018, 5007, 6002, 7001>>

RECURSIVE sigmoidMilli(_)
sigmoidMilli(i) ==
    IF i >= Len(SigmoidTable) THEN 1000
    ELSE IF i >= 0 THEN SigmoidTable[i + 1]
    ELSE 1000 - sigmoidMilli(-i)

RECURSIVE softplusMilli(_)
softplusMilli(i) ==
    IF i >= Len(SoftplusTable) THEN 1000 * i
    ELSE IF i >= 0 THEN SoftplusTable[i + 1]
    ELSE softplusMilli(-i) + 1000 * i

Floor(x) == (x[1] * x[2]) \div x[3]

\* T.nnet.sigmoid / activation_functions.sigmoid, one entry
sigmoid1(x) ==
    IF IsNaN(x) THEN NaN
    ELSE IF IsInf(x) THEN (IF x[1] = 1 THEN FromInt(1) ELSE FromInt(0))
    ELSE Norm(1, sigmoidMilli(Floor(x)), 1000)

\* T.nnet.softplus, one entry
softplus1(x) ==
    IF IsNaN(x) THEN NaN
    ELSE IF IsInf(x) THEN (IF x[1] = 1 THEN x ELSE FromInt(0))
    ELSE Norm(1, softplusMilli(Floor(x)), 1000)

(***************************************************************************)
(* Tensors: a shape (axis 0 the minibatch, axis 1 the unit, axis 2 the     *)
(* state of a categorical unit) and one entry per position.  Positions are *)
(* tuples with entries from 1; axes are numbered from 0 as in the source.  *)
(***************************************************************************)
RECURSIVE Prod(_)
Prod(s) == IF s = <<>> THEN 1 ELSE Head(s) * Prod(Tail(s))

Positions(shape) ==
    {p \in [1..Len(shape) -> 1..Prod(shape)] : \A i \in 1..Len(shape) : p[i] <= shape[i]}

Shapes(rank, maxElems) == {s \in [1..rank -> 1..maxElems] : Prod(s) <= maxElems}

Acts == {FromInt(i) : i \in (0 - MaxAct)..MaxAct}

TensorsOf(shape) == {[shape |-> shape, data |-> d] : d \in [Positions(shape) -> Acts]}

Tensors(ranks, maxElems) ==
    UNION {TensorsOf(s) : s \in UNION {Shapes(r, maxElems) : r \in ranks}}

ndim(t) == Len(t.shape)

\* Elementwise arithmetic.  A scalar operand c is broadcast; two tensor
\* operands have one shape.
\* -t
TNeg(t) == [shape |-> t.shape, data |-> [p \in DOMAIN t.data |-> RNeg(t.data[p])]]

\* c * t
TScale(c, t) == [shape |-> t.shape, data |-> [p \in DOMAIN t.data |-> RMul(c, t.data[p])]]

\* c / t
TDivC(c, t) == [shape |-> t.shape, data |-> [p \in DOMAIN t.data |-> RDiv(c, t.data[p])]]

\* t + c
TAddC(t, c) == [shape |-> t.shape, data |-> [p \in DOMAIN t.data |-> RAdd(t.data[p], c)]]

\* t1 / t2
TDiv(t1, t2) ==
    [shape |-> t1.shape, data |-> [p \in DOMAIN t1.data |-> RDiv(t1.data[p], t2.data[p])]]

\* t1 - t2
TSub(t1, t2) ==
    [shape |-> t1.shape, data |-> [p \in DOMAIN t1.data |-> RSub(t1.data[p], t2.data[p])]]

RECURSIVE SumOver(_, _)
SumOver(S, f) ==
    IF S = {} THEN FromInt(0)
    ELSE LET p == CHOOSE q \in S : TRUE IN RAdd(f[p], SumOver(S \ {p}, f))

\* the sum of the integers f[p], p in S
RECURSIVE IntSum(_, _)
IntSum(S, f) ==
    IF S = {} THEN 0
    ELSE LET p == CHOOSE q \in S : TRUE IN f[p] + IntSum(S \ {p}, f)

\* Python's range(a, b)
range(a, b) == a..(b - 1)

\* T.sum(t, axis=axes): the axes listed are summed away, the others kept
T_sum(t, axes) ==
    LET kept == SelectSeq([i \in 1..ndim(t) |-> i], LAMBDA i : (i - 1) \notin axes)
        proj(p) == [j \in 1..Len(kept) |-> p[kept[j]]]
        shape == proj(t.shape)
    IN  [shape |-> shape,
         data |-> [q \in Positions(shape) |->
                      SumOver({p \in DOMAIN t.data : proj(p) = q}, t.data)]]

\* t[:, :, 1:]: the first index of axis 2 is dropped instead of the last
SliceDropFirst(t) ==
    LET shape == [t.shape EXCEPT ![3] = @ - 1]
    IN  [shape |-> shape,
         data |-> [p \in Positions(shape) |-> t.data[[p EXCEPT ![3] = @ + 1]]]]

\* t[:, :, :-1]: the last index of axis 2 is dropped
SliceDropLast(t) ==
    LET shape == [t.shape EXCEPT ![3] = @ - 1]
    IN  [shape |-> shape, data |-> [p \in Positions(shape) |-> t.data[p]]]

sigmoid(t) == [shape |-> t.shape, data |-> [p \in DOMAIN t.data |-> sigmoid1(t.data[p])]]

softplus(t) == [shape |-> t.shape, data |-> [p \in DOMAIN t.data |-> softplus1(t.data[p])]]

(***************************************************************************)
(* Objects.  The unit under construction is object Self and the proxy it   *)
(* creates is object Proxy; `units` maps each constructed object to its    *)
(* attributes.  A name is None (<<>>) or a string (<<"x">>); an attribute  *)
(* that holds a unit holds its identity, NoUnit where the class has no     *)
(* such attribute.                                                         *)
(***************************************************************************)
\* a mapping with no keys: an empty dict, an empty object table
EmptyMap == [k \in {} |-> NaN]

NoUnit == "no unit"
Self == "u"
Proxy == "p"

None == <<>>
Names == {None, <<"x">>, <<"h">>}

UnitClasses ==
    {"BinaryUnits", "GaussianUnits", "LearntPrecisionGaussianUnits", "SoftmaxUnits",
     "SoftmaxWithZeroUnits", "TruncatedExponentialUnits", "ExponentialUnits",
     "NRELUnits", "GammaUnits", "SymmetricBinaryUnits"}

\* Units.__init__(rbm, name): a unit with a name and no proxies
Units___init__(h, id, cls, name) ==
    (id :> [cls |-> cls, name |-> name, proxy_units |-> <<>>,
            precision_units |-> NoUnit, log_units |-> NoUnit, flipped_units |-> NoUnit,
            units |-> NoUnit, func |-> "none"]) @@ h

\* ProxyUnits.__init__(rbm, units, func, name): a unit that refers to its base
\* unit and keeps the transform
ProxyUnits___init__(h, id, cls, base, func, name) ==
    [Units___init__(h, id, cls, name) EXCEPT ![id].units = base, ![id].func = func]

GaussianPrecisionProxyUnits_func(x) == RDiv(RMul(x, x), FromInt(2))

\* the proxy built with the transform x**2
GaussianPrecisionProxyUnits___init___squares(h, id, base, name) ==
    ProxyUnits___init__(h, id, "GaussianPrecisionProxyUnits", base, "x**2", name)

GaussianPrecisionProxyUnits___init__(h, id, base, name) ==
    ProxyUnits___init__(h, id, "GaussianPrecisionProxyUnits", base, "x**2 / 2.0", name)

GaussianUnits___init__(h, id, name) ==
    LET h1 == Units___init__(h, id, "GaussianUnits", name)
        proxy_name == IF name # None THEN <<name[1] \o "_precision">> ELSE None
        h2 == GaussianPrecisionProxyUnits___init__(h1, Proxy, id, proxy_name)
    IN  [h2 EXCEPT ![id].precision_units = Proxy, ![id].proxy_units = <<Proxy>>]

LearntPrecisionGaussianProxyUnits_func(x) == RMul(x, x)

LearntPrecisionGaussianProxyUnits___init__(h, id, base, name) ==
    ProxyUnits___init__(h, id, "LearntPrecisionGaussianProxyUnits", base, "x**2", name)

LearntPrecisionGaussianUnits___init__(h, id, name) ==
    LET h1 == Units___init__(h, id, "LearntPrecisionGaussianUnits", name)
        proxy_name == IF name # None THEN <<name[1] \o "_precision">> ELSE None
        h2 == LearntPrecisionGaussianProxyUnits___init__(h1, Proxy, id, proxy_name)
    IN  [h2 EXCEPT ![id].precision_units = Proxy, ![id].proxy_units = <<Proxy>>]

\* T.log at the integers 1..8, to three decimals, and at the edge of its domain
LogTable == <<0, 693, 1099, 1386, 1609, 1792, 1946, 2079>>

GammaLogProxyUnits_func(x) ==
    IF IsNaN(x) THEN NaN
    ELSE IF x[2] = 0 THEN <<-1, 1, 0>>
    ELSE IF x[1] = -1 THEN NaN
    ELSE IF IsInf(x) THEN x
    ELSE Norm(1, LogTable[Floor(x)], 1000)

GammaLogProxyUnits___init__(h, id, base, name) ==
    ProxyUnits___init__(h, id, "GammaLogProxyUnits", base, "T.log(x)", name)

GammaUnits___init__(h, id, name) ==
    LET h1 == Units___init__(h, id, "GammaUnits", name)
        proxy_name == IF name # None THEN <<name[1] \o "_log">> ELSE None
        h2 == GammaLogProxyUnits___init__(h1, Proxy, id, proxy_name)
    IN  [h2 EXCEPT ![id].log_units = Proxy, ![id].proxy_units = <<Proxy>>]

SymmetricBinaryProxyUnits_func(x) == RSub(FromInt(1), x)

SymmetricBinaryProxyUnits___init__(h, id, base, name) ==
    ProxyUnits___init__(h, id, "SymmetricBinaryProxyUnits", base, "1 - x", name)

SymmetricBinaryUnits___init__(h, id, name) ==
    LET h1 == Units___init__(h, id, "SymmetricBinaryUnits", name)
        proxy_name == IF name # None THEN <<name[1] \o "_flipped">> ELSE None
        h2 == SymmetricBinaryProxyUnits___init__(h1, Proxy, id, proxy_name)
    IN  [h2 EXCEPT ![id].flipped_units = Proxy, ![id].proxy_units = <<Proxy>>]

\* the transform a proxy keeps, applied to one entry
func_apply(f, x) ==
    CASE f = "x**2 / 2.0" -> GaussianPrecisionProxyUnits_func(x)
      [] f = "x**2" -> LearntPrecisionGaussianProxyUnits_func(x)
      [] f = "T.log(x)" -> GammaLogProxyUnits_func(x)
      [] f = "1 - x" -> SymmetricBinaryProxyUnits_func(x)

\* cls(rbm, name): the constructor the class defines, else the one it inherits
New(cls, name) ==
    CASE cls = "GaussianUnits" -> GaussianUnits___init__(EmptyMap, Self, name)
      [] cls = "LearntPrecisionGaussianUnits" ->
             LearntPrecisionGaussianUnits___init__(EmptyMap, Self, name)
      [] cls = "GammaUnits" -> GammaUnits___init__(EmptyMap, Self, name)
      [] cls = "SymmetricBinaryUnits" -> SymmetricBinaryUnits___init__(EmptyMap, Self, name)
      [] OTHER -> Units___init__(EmptyMap, Self, cls, name)

(***************************************************************************)
(* Calls.  A call ends by returning or by raising; what it returns is the  *)
(* result of a last call into a collaborator (a sampler, Theano), kept as  *)
(* that callee's name and the arguments handed to it, or a tensor the      *)
(* method computed itself (fn = "value").  `vmap` is the caller's mapping  *)
(* when the call ends.                                                     *)
(***************************************************************************)
Return(fn, args, vm) == [outcome |-> "return", fn |-> fn, args |-> args, vmap |-> vm]

Raise(exc, vm) == [outcome |-> exc, fn |-> "none", args |-> <<>>, vmap |-> vm]

\* T.exp at the integers -4..4, in thousandths, continued by e and 1/e beyond
ExpTable == <<18, 50, 135, 368, 1000, 2718, 7389, 20086, 54598>>

RECURSIVE expMilli(_)
expMilli(i) ==
    IF i > 4 THEN (expMilli(i - 1) * 2718) \div 1000
    ELSE IF i < -4 THEN (expMilli(i + 1) * 368) \div 1000
    ELSE ExpTable[i + 5]

\* T.nnet.softmax over the state axis of logits x: exp(x) over the sum of the
\* row's exp(x)
row_softmax(x) ==
    [shape |-> x.shape,
     data |-> [p \in DOMAIN x.data |->
                  Norm(1, expMilli(Floor(x.data[p])),
                       IntSum({q \in DOMAIN x.data : q[1] = p[1] /\ q[2] = p[2]},
                              [q \in DOMAIN x.data |-> expMilli(Floor(x.data[q]))]))]]

\* activation_functions.softmax(x)
softmax(x) == row_softmax(x)

\* activation_functions.softmax_with_zero(x): the softmax over the N states and
\* one more state of activation 0, placed last
softmax_with_zero(x) ==
    LET shape == [x.shape EXCEPT ![3] = @ + 1]
    IN  row_softmax([shape |-> shape,
                     data |-> [p \in Positions(shape) |->
                                  IF p[3] <= x.shape[3] THEN x.data[p] ELSE FromInt(0)]])

\* the rows of a categorical tensor: one per (minibatch, unit)
Rows(t) == Positions(<<t.shape[1], t.shape[2]>>)

\* samplers.multinomial(p): one state per row is drawn, rnd[row] being the draw
\* (every state has a positive probability under a softmax), and the result is
\* 1 at the state drawn and 0 elsewhere
multinomial(p, rnd) ==
    [shape |-> p.shape,
     data |-> [q \in DOMAIN p.data |->
                  IF rnd[<<q[1], q[2]>>] = q[3] THEN FromInt(1) ELSE FromInt(0)]]

\* ---- BinaryUnits ----
BinaryUnits_sample_from_activation(self, vm) ==
    IF self \notin DOMAIN vm THEN Raise("KeyError", vm)
    ELSE LET p == sigmoid(vm[self]) IN Return("samplers.bernoulli", <<p>>, vm)

BinaryUnits_mean_field_from_activation(self, vm) ==
    IF self \notin DOMAIN vm THEN Raise("KeyError", vm)
    ELSE Return("value", <<sigmoid(vm[self])>>, vm)

\* the sum taken over the unit axis alone
BinaryUnits_free_energy_term_sums_axis_1(self, vm) ==
    IF self \notin DOMAIN vm THEN Raise("KeyError", vm)
    ELSE LET s == TNeg(softplus(vm[self]))
         IN  Return("value", <<T_sum(s, {1})>>, vm)

BinaryUnits_free_energy_term_from_activation(self, vm) ==
    IF self \notin DOMAIN vm THEN Raise("KeyError", vm)
    ELSE LET s == TNeg(softplus(vm[self]))
         IN  Return("value", <<T_sum(s, range(1, ndim(s)))>>, vm)

\* ---- GaussianUnits ----
GaussianUnits_sample_from_activation(self, vm) ==
    IF self \notin DOMAIN vm THEN Raise("KeyError", vm)
    ELSE Return("samplers.gaussian", <<vm[self]>>, vm)

GaussianUnits_mean_field_from_activation(self, vm) ==
    IF self \notin DOMAIN vm THEN Raise("KeyError", vm)
    ELSE Return("value", <<vm[self]>>, vm)

\* ---- LearntPrecisionGaussianUnits ----
\* the precision checked before sampling: a2 >= 0 is refused
LearntPrecisionGaussianUnits_sample_guarded(self, vm) ==
    IF self \notin DOMAIN vm THEN Raise("KeyError", vm)
    ELSE IF units[self].precision_units \notin DOMAIN vm THEN Raise("KeyError", vm)
    ELSE IF \E p \in DOMAIN vm[units[self].precision_units].data :
               vm[units[self].precision_units].data[p][1] = 1
         THEN Raise("ValueError", vm)
    ELSE LET a1 == vm[self]
             a2 == vm[units[self].precision_units]
             m2a2 == TScale(FromInt(-2), a2)
         IN  Return("samplers.gaussian",
                    <<TDiv(a1, m2a2), TDivC(FromInt(1), m2a2)>>,
                    vm)

LearntPrecisionGaussianUnits_sample_from_activation(self, vm) ==
    IF self \notin DOMAIN vm THEN Raise("KeyError", vm)
    ELSE IF units[self].precision_units \notin DOMAIN vm THEN Raise("KeyError", vm)
    ELSE LET a1 == vm[self]
             a2 == vm[units[self].precision_units]
             m2a2 == TScale(FromInt(-2), a2)
         IN  Return("samplers.gaussian",
                    <<TDiv(a1, m2a2), TDivC(FromInt(1), m2a2)>>,
                    vm)

\* ---- SoftmaxUnits ----
SoftmaxUnits_sample_from_activation(self, vm, rnd) ==
    IF self \notin DOMAIN vm THEN Raise("KeyError", vm)
    ELSE LET p == softmax(vm[self]) IN Return("value", <<multinomial(p, rnd)>>, vm)

\* ---- SoftmaxWithZeroUnits ----
SoftmaxWithZeroUnits_sample_from_activation(self, vm, rnd) ==
    IF self \notin DOMAIN vm THEN Raise("KeyError", vm)
    ELSE LET p0 == softmax_with_zero(vm[self])
             s0 == multinomial(p0, rnd)
             s == SliceDropLast(s0)
         IN  Return("value", <<s>>, vm)

\* ---- TruncatedExponentialUnits ----
TruncatedExponentialUnits_sample_from_activation(self, vm) ==
    IF self \notin DOMAIN vm THEN Raise("KeyError", vm)
    ELSE Return("samplers.truncated_exponential", <<TNeg(vm[self])>>, vm)

TruncatedExponentialUnits_mean_field_from_activation(self, vm) ==
    IF self \notin DOMAIN vm THEN Raise("KeyError", vm)
    ELSE Return("samplers.truncated_exponential_mean", <<TNeg(vm[self])>>, vm)

\* ---- ExponentialUnits ----
ExponentialUnits_sample_from_activation(self, vm) ==
    IF self \notin DOMAIN vm THEN Raise("KeyError", vm)
    ELSE Return("samplers.exponential", <<TNeg(vm[self])>>, vm)

ExponentialUnits_mean_field_from_activation(self, vm) ==
    IF self \notin DOMAIN vm THEN Raise("KeyError", vm)
    ELSE Return("value",
                <<TDivC(FromInt(1), TNeg(vm[self]))>>, vm)

\* ---- NRELUnits ----
\* the names a method body can read: its parameters and the module's globals
NamesInScope ==
    {"self", "vmap", "Units", "ProxyUnits", "samplers", "activation_functions", "T"}
    \cup UnitClasses

\* s = a + samplers.gaussian(0, T.nnet.sigmoid(vmap[self])): the left operand
\* `a` is evaluated first, before vmap is read, and is no name in scope; were
\* it one, the sum s would be handed to T.max(0, s)
NRELUnits_sample_from_activation(self, vm) ==
    IF "a" \notin NamesInScope THEN Raise("NameError", vm)
    ELSE IF self \notin DOMAIN vm THEN Raise("KeyError", vm)
    ELSE Return("T.max", <<FromInt(0), "s">>, vm)

NRELUnits_mean_field_from_activation(self, vm) ==
    IF self \notin DOMAIN vm THEN Raise("KeyError", vm)
    ELSE Return("T.max", <<FromInt(0), vm[self]>>, vm)

\* ---- GammaUnits ----
GammaUnits_sample_from_activation(self, vm) ==
    IF self \notin DOMAIN vm THEN Raise("KeyError", vm)
    ELSE IF units[self].log_units \notin DOMAIN vm THEN Raise("KeyError", vm)
    ELSE LET a1 == vm[self]
             a2 == vm[units[self].log_units]
         IN  Return("samplers.gamma_approx",
                    <<TAddC(a2, FromInt(1)),
                      TDivC(FromInt(-1), a1)>>,
                    vm)

\* ---- SymmetricBinaryUnits ----
SymmetricBinaryUnits_sample_from_activation(self, vm) ==
    IF self \notin DOMAIN vm THEN Raise("KeyError", vm)
    ELSE IF units[self].flipped_units \notin DOMAIN vm THEN Raise("KeyError", vm)
    ELSE LET p == sigmoid(TSub(vm[self], vm[units[self].flipped_units]))
         IN  Return("samplers.bernoulli", <<p>>, vm)

\* the mean field taken on the unit's own activation alone
SymmetricBinaryUnits_mean_field_ignores_flipped(self, vm) ==
    IF self \notin DOMAIN vm THEN Raise("KeyError", vm)
    ELSE IF units[self].flipped_units \notin DOMAIN vm THEN Raise("KeyError", vm)
    ELSE Return("value", <<sigmoid(vm[self])>>, vm)

SymmetricBinaryUnits_mean_field_from_activation(self, vm) ==
    IF self \notin DOMAIN vm THEN Raise("KeyError", vm)
    ELSE IF units[self].flipped_units \notin DOMAIN vm THEN Raise("KeyError", vm)
    ELSE Return("value",
                <<sigmoid(TSub(vm[self], vm[units[self].flipped_units]))>>, vm)

SymmetricBinaryUnits_free_energy_term_from_activation(self, vm) ==
    IF self \notin DOMAIN vm THEN Raise("KeyError", vm)
    ELSE IF units[self].flipped_units \notin DOMAIN vm THEN Raise("KeyError", vm)
    ELSE LET s == TNeg(softplus(TSub(vm[self], vm[units[self].flipped_units])))
         IN  Return("value", <<T_sum(s, range(1, ndim(s)))>>, vm)

\* Units.activation(vmap): the activation the owning model resolves for a unit
\* from its parameters; rbm[u] is the model's answer for unit u
Units_activation(u, vm, rbm) == rbm[u]

\* LearntPrecisionGaussianUnits.sample storing the resolved activations in the
\* vmap it was passed
LearntPrecisionGaussianUnits_sample_updates_vmap(self, vm, rbm) ==
    LET a1 == Units_activation(self, vm, rbm)
        a2 == Units_activation(units[self].precision_units, vm, rbm)
        vm2 == (self :> a1) @@ (units[self].precision_units :> a2) @@ vm
    IN  LearntPrecisionGaussianUnits_sample_from_activation(self, vm2)

\* LearntPrecisionGaussianUnits.sample: both activations are resolved by the
\* model and handed on in a dict of their own
LearntPrecisionGaussianUnits_sample(self, vm, rbm) ==
    LET a1 == Units_activation(self, vm, rbm)
        a2 == Units_activation(units[self].precision_units, vm, rbm)
        r == LearntPrecisionGaussianUnits_sample_from_activation(
                 self, (self :> a1) @@ (units[self].precision_units :> a2))
    IN  [r EXCEPT !.vmap = vm]

\* GammaUnits.sample delegating with the vmap it was passed
GammaUnits_sample_passes_vmap(self, vm, rbm) ==
    GammaUnits_sample_from_activation(self, vm)

\* GammaUnits.sample
GammaUnits_sample(self, vm, rbm) ==
    LET a1 == Units_activation(self, vm, rbm)
        a2 == Units_activation(units[self].log_units, vm, rbm)
        r == GammaUnits_sample_from_activation(
                 self, (self :> a1) @@ (units[self].log_units :> a2))
    IN  [r EXCEPT !.vmap = vm]

(***************************************************************************)
(* Classes and method lookup.                                              *)
(***************************************************************************)
\* class NRELUnits(BinaryUnits)
Base_NREL_from_Binary(cls) == IF cls = "NRELUnits" THEN "BinaryUnits" ELSE "Units"

\* class X(Units)
Base(cls) == "Units"

\* the methods each class body defines
Defines(cls) ==
    CASE cls = "BinaryUnits" ->
             {"sample_from_activation", "mean_field_from_activation",
              "free_energy_term_from_activation"}
      [] cls = "GaussianUnits" ->
             {"__init__", "sample_from_activation", "mean_field_from_activation"}
      [] cls = "LearntPrecisionGaussianUnits" ->
             {"__init__", "sample_from_activation", "sample"}
      [] cls = "SoftmaxUnits" -> {"sample_from_activation"}
      [] cls = "SoftmaxWithZeroUnits" -> {"sample_from_activation"}
      [] cls = "TruncatedExponentialUnits" ->
             {"sample_from_activation", "mean_field_from_activation"}
      [] cls = "ExponentialUnits" ->
             {"sample_from_activation", "mean_field_from_activation"}
      [] cls = "NRELUnits" -> {"sample_from_activation", "mean_field_from_activation"}
      [] cls = "GammaUnits" -> {"__init__", "sample_from_activation", "sample"}
      [] cls = "SymmetricBinaryUnits" ->
             {"__init__", "sample_from_activation", "mean_field_from_activation",
              "free_energy_term_from_activation"}
      [] OTHER -> {}

\* the class whose body supplies method m to an object of class cls: the class
\* itself or the nearest base that defines it; "absent" when the search ends at
\* Units without a family-specific definition
RECURSIVE Resolve(_, _)
Resolve(cls, m) ==
    IF cls = "Units" THEN "absent"
    ELSE IF m \in Defines(cls) THEN cls
    ELSE Resolve(Base(cls), m)

\* a method the unit's family does not offer
Units_absent_method(self, vm) == Raise("CapabilityError", vm)

sample_from_activation(self, vm, rnd) ==
    LET impl == Resolve(units[self].cls, "sample_from_activation")
    IN  CASE impl = "BinaryUnits" -> BinaryUnits_sample_from_activation(self, vm)
          [] impl = "GaussianUnits" -> GaussianUnits_sample_from_activation(self, vm)
          [] impl = "LearntPrecisionGaussianUnits" ->
                 LearntPrecisionGaussianUnits_sample_from_activation(self, vm)
          [] impl = "SoftmaxUnits" -> SoftmaxUnits_sample_from_activation(self, vm, rnd)
          [] impl = "SoftmaxWithZeroUnits" ->
                 SoftmaxWithZeroUnits_sample_from_activation(self, vm, rnd)
          [] impl = "TruncatedExponentialUnits" ->
                 TruncatedExponentialUnits_sample_from_activation(self, vm)
          [] impl = "ExponentialUnits" -> ExponentialUnits_sample_from_activation(self, vm)
          [] impl = "NRELUnits" -> NRELUnits_sample_from_activation(self, vm)
          [] impl = "GammaUnits" -> GammaUnits_sample_from_activation(self, vm)
          [] impl = "SymmetricBinaryUnits" ->
                 SymmetricBinaryUnits_sample_from_activation(self, vm)
          [] OTHER -> Units_absent_method(self, vm)

mean_field_from_activation(self, vm) ==
    LET impl == Resolve(units[self].cls, "mean_field_from_activation")
    IN  CASE impl = "BinaryUnits" -> BinaryUnits_mean_field_from_activation(self, vm)
          [] impl = "GaussianUnits" -> GaussianUnits_mean_field_from_activation(self, vm)
          [] impl = "TruncatedExponentialUnits" ->
                 TruncatedExponentialUnits_mean_field_from_activation(self, vm)
          [] impl = "ExponentialUnits" ->
                 ExponentialUnits_mean_field_from_activation(self, vm)
          [] impl = "NRELUnits" -> NRELUnits_mean_field_from_activation(self, vm)
          [] impl = "SymmetricBinaryUnits" ->
                 SymmetricBinaryUnits_mean_field_from_activation(self, vm)
          [] OTHER -> Units_absent_method(self, vm)

free_energy_term_from_activation(self, vm) ==
    LET impl == Resolve(units[self].cls, "free_energy_term_from_activation")
    IN  CASE impl = "BinaryUnits" -> BinaryUnits_free_energy_term_from_activation(self, vm)
          [] impl = "SymmetricBinaryUnits" ->
                 SymmetricBinaryUnits_free_energy_term_from_activation(self, vm)
          [] OTHER -> Units_absent_method(self, vm)

sample(self, vm, rbm) ==
    LET impl == Resolve(units[self].cls, "sample")
    IN  CASE impl = "LearntPrecisionGaussianUnits" ->
                 LearntPrecisionGaussianUnits_sample(self, vm, rbm)
          [] impl = "GammaUnits" -> GammaUnits_sample(self, vm, rbm)

(***************************************************************************)
(* The inputs of a call.                                                   *)
(***************************************************************************)
Categorical == {"SoftmaxUnits", "SoftmaxWithZeroUnits"}

\* the ranks of the activations of a class: a categorical unit has the state axis
RanksFor(cls) == IF cls \in Categorical THEN {3} ELSE {2, 3}

\* the vmaps a caller may pass: any subset of the unit's own key and its
\* proxy's, the two tensors of one shape when both are there
VmapsOf(ranks, maxElems) ==
    {EmptyMap}
    \cup {(Self :> t) : t \in Tensors(ranks, maxElems)}
    \cup (IF Proxy \in DOMAIN units
          THEN {(Proxy :> t) : t \in Tensors(ranks, MaxProxyElems)}
               \cup UNION {{(Self :> t1) @@ (Proxy :> t2) : t2 \in TensorsOf(t1.shape)} :
                            t1 \in Tensors(ranks, MaxProxyElems)}
          ELSE {})

Vmaps(cls) == VmapsOf(RanksFor(cls), MaxElems)

\* the vmaps the free-energy term is asked on: for BinaryUnits, whose term is a
\* sum over several axes, also the larger tensors
FreeEnergyVmaps(cls) ==
    Vmaps(cls)
    \cup (IF cls = "BinaryUnits"
          THEN {(Self :> t) : t \in Tensors(RanksFor(cls), MaxSumElems)}
          ELSE {})

\* the draws of the multinomial sampler: one state per row, of the N states and,
\* with the zero state, of one more
Draws(cls, vm) ==
    IF cls \in Categorical /\ Self \in DOMAIN vm
    THEN [Rows(vm[Self]) ->
             1..(vm[Self].shape[3] + (IF cls = "SoftmaxWithZeroUnits" THEN 1 ELSE 0))]
    ELSE {<<>>}

\* the answers of the owning model for the unit and its proxy: a layer of one
\* unit, resolved for a minibatch of one
Resolutions ==
    {(Self :> t1) @@ (Proxy :> t2) : t1, t2 \in TensorsOf(<<1, 1>>)}

NoCall == [method |-> "none", outcome |-> "none", fn |-> "none", args |-> <<>>,
           rnd |-> <<>>, rbm |-> EmptyMap]

Record(m, r, rnd, rbm) ==
    [method |-> m, outcome |-> r.outcome, fn |-> r.fn, args |-> r.args,
     rnd |-> rnd, rbm |-> rbm]

(***************************************************************************)
(* The state machine.                                                      *)
(***************************************************************************)
Init ==
    /\ pc = "start"
    /\ units = EmptyMap
    /\ vmap = EmptyMap
    /\ arg = EmptyMap
    /\ last = NoCall

\* model assembly: one unit of some class is constructed
Construct ==
    /\ pc = "start"
    /\ \E cls \in UnitClasses, name \in Names : units' = New(cls, name)
    /\ pc' = "ready"
    /\ UNCHANGED <<vmap, arg, last>>

Call_sample_from_activation ==
    /\ pc = "ready"
    /\ \E vm \in Vmaps(units[Self].cls) :
         \E rnd \in Draws(units[Self].cls, vm) :
            LET r == sample_from_activation(Self, vm, rnd)
            IN  /\ arg' = vm
                /\ vmap' = r.vmap
                /\ last' = Record("sample_from_activation", r, rnd, EmptyMap)
    /\ pc' = "returned"
    /\ UNCHANGED units

Call_mean_field_from_activation ==
    /\ pc = "ready"
    /\ \E vm \in Vmaps(units[Self].cls) :
            LET r == mean_field_from_activation(Self, vm)
            IN  /\ arg' = vm
                /\ vmap' = r.vmap
                /\ last' = Record("mean_field_from_activation", r, <<>>, EmptyMap)
    /\ pc' = "returned"
    /\ UNCHANGED units

Call_free_energy_term_from_activation ==
    /\ pc = "ready"
    /\ \E vm \in FreeEnergyVmaps(units[Self].cls) :
            LET r == free_energy_term_from_activation(Self, vm)
            IN  /\ arg' = vm
                /\ vmap' = r.vmap
                /\ last' = Record("free_energy_term_from_activation", r, <<>>, EmptyMap)
    /\ pc' = "returned"
    /\ UNCHANGED units

Call_sample ==
    /\ pc = "ready"
    /\ "sample" \in Defines(units[Self].cls)
    /\ \E vm \in VmapsOf({2}, MaxProxyElems), rbm \in Resolutions :
            LET r == sample(Self, vm, rbm)
            IN  /\ arg' = vm
                /\ vmap' = r.vmap
                /\ last' = Record("sample", r, <<>>, rbm)
    /\ pc' = "returned"
    /\ UNCHANGED units

\* the caller is done with the result and the vmap of the call it made
Continue ==
    /\ pc = "returned"
    /\ pc' = "ready"
    /\ vmap' = EmptyMap
    /\ arg' = EmptyMap
    /\ last' = NoCall
    /\ UNCHANGED units

Next ==
    \/ Construct
    \/ Call_sample_from_activation
    \/ Call_mean_field_from_activation
    \/ Call_free_energy_term_from_activation
    \/ Call_sample
    \/ Continue

Spec == Init /\ [][Next]_vars

(***************************************************************************)
(* Properties                                                              *)
(***************************************************************************)
Cls == units[Self].cls

\* a call of method m on a unit of class cls has ended
Ended(cls, m) == pc = "returned" /\ Cls = cls /\ last.method = m

Zero == FromInt(0)
One == FromInt(1)

\* C1: SoftmaxWithZeroUnits.sample_from_activation returns, whatever the
\* activation and the draw, N state entries per (minibatch, unit) row that are
\* zeros and ones with at most one 1; a row is all zero exactly when the
\* (N+1)-th state, the zero state, was the one drawn.
C1_OneHotOrAllZero ==
    (Ended("SoftmaxWithZeroUnits", "sample_from_activation") /\ Self \in DOMAIN arg) =>
        /\ last.outcome = "return"
        /\ last.args[1].shape = arg[Self].shape
        /\ \A row \in Rows(arg[Self]) :
              LET N == arg[Self].shape[3]
                  entry(k) == last.args[1].data[<<row[1], row[2], k>>]
                  ones == {k \in 1..N : entry(k) = One}
              IN  /\ \A k \in 1..N : entry(k) \in {Zero, One}
                  /\ Cardinality(ones) <= 1
                  /\ (ones = {}) <=> (last.rnd[row] = N + 1)

\* a sample with one row all zero and another row holding a 1
C1_Witness ==
    /\ Ended("SoftmaxWithZeroUnits", "sample_from_activation")
    /\ last.outcome = "return"
    /\ \E r1, r2 \in Rows(last.args[1]) :
          /\ last.args[1].data[<<r1[1], r1[2], 1>>] = Zero
          /\ last.rnd[r1] = 2
          /\ last.args[1].data[<<r2[1], r2[2], 1>>] = One

FromActivation ==
    {"sample_from_activation", "mean_field_from_activation",
     "free_energy_term_from_activation"}

\* the vmap keys the *_from_activation methods of a class read
KeysRead(cls) ==
    IF cls \in {"LearntPrecisionGaussianUnits", "GammaUnits", "SymmetricBinaryUnits"}
    THEN {Self, Proxy}
    ELSE {Self}

\* a *_from_activation method the unit's class offers was called on a vmap that
\* lacks a key the method reads
MissingKeyCall ==
    /\ pc = "returned"
    /\ last.method \in FromActivation
    /\ last.method \in Defines(Cls)
    /\ ~(KeysRead(Cls) \subseteq DOMAIN arg)

\* C2: a *_from_activation call on a vmap that lacks a key the method reads
\* ends in a lookup failure propagated to the caller: nothing is returned and
\* no default stands in for the missing activation.
C2_MissingKeyIsLookupFailure ==
    MissingKeyCall => (last.outcome = "KeyError" /\ last.fn = "none")

\* C3: on a vmap that holds the unit's key, NRELUnits.sample_from_activation
\* completes and returns the rectified max(0, a + noise).
C3_NRELSampleReturns ==
    (Ended("NRELUnits", "sample_from_activation") /\ Self \in DOMAIN arg) =>
        (last.outcome = "return" /\ last.fn = "T.max")

\* the parameters GammaUnits hands gamma_approx for activations a1, a2:
\* shape = a2 + 1 and scale = -1 / a1, entry by entry
GammaParams(args, a1, a2) ==
    /\ args[1].shape = a2.shape
    /\ args[2].shape = a1.shape
    /\ \A p \in DOMAIN a2.data :
          IsInteger(args[1].data[p]) /\ IntOf(args[1].data[p]) = IntOf(a2.data[p]) + 1
    /\ \A p \in DOMAIN a1.data :
          IF IntOf(a1.data[p]) = 0
          THEN IsInf(args[2].data[p])
          ELSE RMul(args[2].data[p], a1.data[p]) = FromInt(-1)

\* the parameters LearntPrecisionGaussianUnits hands gaussian for activations
\* a1, a2: mean = a1 / (-2 a2) and variance = 1 / (-2 a2), entry by entry
GaussianParams(args, a1, a2) ==
    /\ args[1].shape = a1.shape
    /\ args[2].shape = a2.shape
    /\ \A p \in DOMAIN a1.data :
          LET d == FromInt(-2 * IntOf(a2.data[p]))
          IN  IF IntOf(a2.data[p]) = 0
              THEN ~IsFinite(args[1].data[p]) /\ IsInf(args[2].data[p])
              ELSE /\ RMul(args[1].data[p], d) = a1.data[p]
                   /\ RMul(args[2].data[p], d) = One

\* C4: sample(vmap) of GammaUnits and of LearntPrecisionGaussianUnits hands the
\* sampler the parameters that sample_from_activation hands it on the two-entry
\* map of the activations the model resolves (for Gamma shape = a2 + 1 and
\* scale = -1/a1), whatever the vmap passed holds for the unit and its proxy.
C4_SampleDelegates ==
    (pc = "returned" /\ last.method = "sample") =>
        LET a1 == last.rbm[Self]
            a2 == last.rbm[Proxy]
            two == (Self :> a1) @@ (Proxy :> a2)
            ref == IF Cls = "GammaUnits"
                   THEN GammaUnits_sample_from_activation(Self, two)
                   ELSE LearntPrecisionGaussianUnits_sample_from_activation(Self, two)
        IN  /\ last.outcome = "return"
            /\ last.fn = ref.fn
            /\ last.args = ref.args
            /\ Cls = "GammaUnits" =>
                   (last.fn = "samplers.gamma_approx" /\ GammaParams(last.args, a1, a2))
            /\ Cls = "LearntPrecisionGaussianUnits" =>
                   (last.fn = "samplers.gaussian" /\ GaussianParams(last.args, a1, a2))

\* GammaUnits.sample has returned on a vmap that holds other activations for
\* the unit and its proxy than the model resolves
C4_Witness ==
    /\ Ended("GammaUnits", "sample")
    /\ last.outcome = "return"
    /\ DOMAIN arg = {Self, Proxy}
    /\ arg[Self] # last.rbm[Self]
    /\ arg[Proxy] # last.rbm[Proxy]

\* C5: of the ten unit classes exactly BinaryUnits and SymmetricBinaryUnits
\* offer free_energy_term_from_activation; on the other eight a call of it ends
\* in a capability error and returns nothing.
C5_FreeEnergyOnlyBinary ==
    /\ \A c \in UnitClasses :
          (Resolve(c, "free_energy_term_from_activation") # "absent")
              <=> (c \in {"BinaryUnits", "SymmetricBinaryUnits"})
    /\ (pc = "returned" /\ last.method = "free_energy_term_from_activation") =>
          IF Cls \in {"BinaryUnits", "SymmetricBinaryUnits"}
          THEN last.outcome \in {"return", "KeyError"}
          ELSE last.outcome = "CapabilityError" /\ last.fn = "none"

\* the free-energy term was asked of a GammaUnits whose keys are all there
C5_Witness ==
    /\ Ended("GammaUnits", "free_energy_term_from_activation")
    /\ DOMAIN arg = {Self, Proxy}
    /\ last.outcome = "CapabilityError"

\* C6: no call changes the vmap passed to it or any attribute of the unit or
\* of its proxies: after every call the caller's vmap is the one passed, and
\* no step after construction changes the objects.
C6_NoMutation ==
    /\ [](pc = "returned" => vmap = arg)
    /\ [][pc # "start" => units' = units]_vars

\* LearntPrecisionGaussianUnits.sample has returned on a vmap without the keys
\* of the unit and its proxy
C6_Witness ==
    /\ Ended("LearntPrecisionGaussianUnits", "sample")
    /\ last.outcome = "return"
    /\ arg = EmptyMap
    /\ vmap = EmptyMap

\* m thousandths, as a tensor entry
Milli(m) == IF m < 0 THEN Norm(-1, -m, 1000) ELSE Norm(1, m, 1000)

\* the free-energy term of logits x: one entry per minibatch example b, the sum
\* of -softplus over every position of x whose minibatch index is b
IsFreeEnergyOf(r, x) ==
    /\ r.shape = <<x.shape[1]>>
    /\ DOMAIN r.data = {<<b>> : b \in 1..x.shape[1]}
    /\ \A b \in 1..x.shape[1] :
          r.data[<<b>>] =
              Milli(0 - IntSum({p \in DOMAIN x.data : p[1] = b},
                               [p \in DOMAIN x.data |-> softplusMilli(IntOf(x.data[p]))]))

\* C7: for an activation a of rank 2 or more, BinaryUnits'
\* free_energy_term_from_activation({u: a}) reduces every axis but axis 0 and
\* returns, per minibatch example, the sum of -softplus(a) over the example's
\* positions; a = [[0.0]] gives [-log 2] = [-0.693].
C7_FreeEnergySumsNonBatchAxes ==
    (Ended("BinaryUnits", "free_energy_term_from_activation") /\ Self \in DOMAIN arg) =>
        /\ last.outcome = "return"
        /\ last.fn = "value"
        /\ IsFreeEnergyOf(last.args[1], arg[Self])
        /\ (arg[Self].shape = <<1, 1>> /\ arg[Self].data[<<1, 1>>] = Zero) =>
               last.args[1].data[<<1>>] = <<-1, 693, 1000>>

\* a rank-3 activation of two examples, each with two state entries, has been
\* reduced to one value per example
C7_Witness ==
    /\ Ended("BinaryUnits", "free_energy_term_from_activation")
    /\ last.outcome = "return"
    /\ arg[Self].shape = <<2, 1, 2>>
    /\ \A p \in DOMAIN arg[Self].data : arg[Self].data[p] = FromInt(2 - p[1])
    /\ last.args[1].shape = <<2>>
    /\ last.args[1].data[<<1>>] = Milli(0 - 2 * softplusMilli(1))
    /\ last.args[1].data[<<2>>] = Milli(0 - 2 * softplusMilli(0))

\* the logit SymmetricBinaryUnits is to use: vmap[u] - vmap[u.flipped_units]
EffectiveLogit(vm) ==
    [shape |-> vm[Self].shape,
     data |-> [p \in DOMAIN vm[Self].data |->
                  FromInt(IntOf(vm[Self].data[p]) - IntOf(vm[Proxy].data[p]))]]

\* the vmap holds a for the unit and 1 - a for its flipped proxy
FlipRelation(vm) ==
    /\ DOMAIN vm = {Self, Proxy}
    /\ vm[Proxy].shape = vm[Self].shape
    /\ \A p \in DOMAIN vm[Self].data :
          IntOf(vm[Proxy].data[p]) = 1 - IntOf(vm[Self].data[p])

\* C8: SymmetricBinaryUnits' sample, mean field and free-energy term are those
\* of BinaryUnits on the single logit vmap[u] - vmap[u.flipped_units]; with
\* {u: a, u.flipped_units: 1 - a} the mean field is sigmoid(2a - 1), the mean
\* field of BinaryUnits on a - (1 - a).
C8_SymmetricUsesLogitDifference ==
    (pc = "returned" /\ Cls = "SymmetricBinaryUnits" /\ last.method \in FromActivation
       /\ DOMAIN arg = {Self, Proxy}) =>
        LET d == (Self :> EffectiveLogit(arg))
            ref == CASE last.method = "sample_from_activation" ->
                            BinaryUnits_sample_from_activation(Self, d)
                     [] last.method = "mean_field_from_activation" ->
                            BinaryUnits_mean_field_from_activation(Self, d)
                     [] last.method = "free_energy_term_from_activation" ->
                            BinaryUnits_free_energy_term_from_activation(Self, d)
        IN  /\ last.outcome = "return"
            /\ last.fn = ref.fn
            /\ last.args = ref.args
            /\ (last.method = "mean_field_from_activation" /\ FlipRelation(arg)) =>
                   \A p \in DOMAIN arg[Self].data :
                      last.args[1].data[p] =
                          Milli(sigmoidMilli(2 * IntOf(arg[Self].data[p]) - 1))

\* the mean field was taken on {u: [[1]], u.flipped_units: [[0]]}
C8_Witness ==
    /\ Ended("SymmetricBinaryUnits", "mean_field_from_activation")
    /\ FlipRelation(arg)
    /\ arg[Self].data[<<1, 1>>] = One
    /\ last.outcome = "return"
    /\ last.args[1].data[<<1, 1>>] = Milli(sigmoidMilli(1))

\* C9: GaussianUnits("x") creates exactly one proxy unit, named "x_precision",
\* held in precision_units and the only element of proxy_units, whose base unit
\* is the GaussianUnits and whose transform maps v to v^2 / 2.
C9_GaussianProxy ==
    (pc # "start" /\ Cls = "GaussianUnits" /\ units[Self].name = <<"x">>) =>
        /\ DOMAIN units = {Self, Proxy}
        /\ units[Self].precision_units = Proxy
        /\ units[Self].proxy_units = <<Proxy>>
        /\ units[Proxy].cls = "GaussianPrecisionProxyUnits"
        /\ units[Proxy].name = <<"x_precision">>
        /\ units[Proxy].units = Self
        /\ units[Proxy].proxy_units = <<>>
        /\ \A v \in -3..3 :
              RMul(FromInt(2), func_apply(units[Proxy].func, FromInt(v))) = FromInt(v * v)

\* GaussianUnits("x") has been constructed, and its proxy's transform takes 3
\* to 9/2
C9_Witness ==
    /\ pc = "ready"
    /\ Cls = "GaussianUnits"
    /\ units[Self].name = <<"x">>
    /\ func_apply(units[Proxy].func, FromInt(3)) = <<1, 9, 2>>

\* the rates ExponentialUnits and TruncatedExponentialUnits hand their
\* samplers: -a, entry by entry
RateParams(args, a) ==
    /\ args[1].shape = a.shape
    /\ \A p \in DOMAIN a.data :
          IsInteger(args[1].data[p]) /\ IntOf(args[1].data[p]) = 0 - IntOf(a.data[p])

\* C10: the units guard no distribution parameter.  Whatever the activations,
\* out of the domain or not, ExponentialUnits and TruncatedExponentialUnits
\* hand the sampler the rate -vmap[self], LearntPrecisionGaussianUnits the mean
\* a1/(-2 a2) and the variance 1/(-2 a2), GammaUnits the shape a2 + 1 and the
\* scale -1/a1: nothing is clamped or replaced and the unit raises no error.
C10_NoParameterGuard ==
    (pc = "returned" /\ last.method = "sample_from_activation"
       /\ KeysRead(Cls) \subseteq DOMAIN arg) =>
        /\ Cls = "ExponentialUnits" =>
              /\ last.outcome = "return"
              /\ last.fn = "samplers.exponential"
              /\ RateParams(last.args, arg[Self])
        /\ Cls = "TruncatedExponentialUnits" =>
              /\ last.outcome = "return"
              /\ last.fn = "samplers.truncated_exponential"
              /\ RateParams(last.args, arg[Self])
        /\ Cls = "LearntPrecisionGaussianUnits" =>
              /\ last.outcome = "return"
              /\ last.fn = "samplers.gaussian"
              /\ GaussianParams(last.args, arg[Self], arg[Proxy])
        /\ Cls = "GammaUnits" =>
              /\ last.outcome = "return"
              /\ last.fn = "samplers.gamma_approx"
              /\ GammaParams(last.args, arg[Self], arg[Proxy])

\* LearntPrecisionGaussianUnits was given a2 = 0 and handed the sampler an
\* infinite variance
C10_Witness ==
    /\ Ended("LearntPrecisionGaussianUnits", "sample_from_activation")
    /\ DOMAIN arg = {Self, Proxy}
    /\ arg[Proxy].data[<<1, 1>>] = Zero
    /\ last.outcome = "return"
    /\ IsInf(last.args[2].data[<<1, 1>>])

====
